---- MODULE Spec2Model ----
(***************************************************************************)
(* Model of package logger (pecet3/logger): the Logger with its            *)
(* timestamp-keyed cache guarded by cMu, and the six logging methods       *)
(* Error, Info, InfoC, Warn, WarnC and Debug, called concurrently by a     *)
(* fixed set of goroutines.  Strings are TLA+ strings, so formatting is    *)
(* computed character for character.                                       *)
(***************************************************************************)
EXTENDS Integers, Sequences, FiniteSets, TLC

\* ------------------------------------------------------------- bounds
NumGoroutines == 2
MaxTime == 2

Goroutines == 1..NumGoroutines
Instants == 1..MaxTime

\* ------------------------------------------------------------- values
StrArg(x) == [s |-> x]
IntArg(x) == [n |-> x]
IsString(a) == "s" \in DOMAIN a

\* Argument lists the callers pass (args ...interface{}).
ArgLists ==
  { <<>>,
    <<StrArg("")>>,
    <<StrArg("disk full")>>,
    <<StrArg("build"), StrArg(" "), StrArg("ok")>>,
    <<StrArg("code "), IntArg(4), IntArg(12)>> }
\* The argument lists of the concurrent runs.
FewArgLists == { <<>>, <<StrArg("disk full")>> }
OneArgList == { <<StrArg("disk full")>> }

Methods == {"Error", "Info", "InfoC", "Warn", "WarnC", "Debug"}

\* type Config struct { IsDebugMode bool }. A *Config is <<>> when nil, else
\* <<the Config it points to>>.
Config == [IsDebugMode : BOOLEAN]
ConfigPtr == {<<>>} \cup {<<cfg>> : cfg \in Config}

\* What runtime.Caller(1) returns (pc, line, ok): the frame of a call site,
\* or (0, "", 0, false) when the frame cannot be recovered.
Unresolved == [pc |-> 0, line |-> 0, ok |-> FALSE]
CallSites == {[pc |-> 1, line |-> 41, ok |-> TRUE], [pc |-> 2, line |-> 7, ok |-> TRUE]}
CallerResults == CallSites \cup {Unresolved}
\* The caller outcomes of the concurrent runs, and a single call site.
FewCallerResults == {[pc |-> 1, line |-> 41, ok |-> TRUE], Unresolved}
OneCallSite == {[pc |-> 1, line |-> 41, ok |-> TRUE]}

\* ------------------------------------------------------ pure functions
Digit(d) == <<"0", "1", "2", "3", "4", "5", "6", "7", "8", "9">>[d + 1]

RECURSIVE Utoa(_)
Utoa(n) == IF n < 10 THEN Digit(n) ELSE Utoa(n \div 10) \o Digit(n % 10)

\* strconv.Itoa
Itoa(n) == IF n < 0 THEN "-" \o Utoa(0 - n) ELSE Utoa(n)

Operand(a) == IF IsString(a) THEN a.s ELSE Itoa(a.n)

\* fmt.Sprint(args...): operands are concatenated, a space is added between
\* two operands when neither is a string.
RECURSIVE Sprint(_)
Sprint(a) ==
  IF Len(a) = 0 THEN ""
  ELSE IF Len(a) = 1 THEN Operand(a[1])
  ELSE LET n == Len(a)
           sep == IF ~IsString(a[n - 1]) /\ ~IsString(a[n]) THEN " " ELSE ""
       IN Sprint(SubSeq(a, 1, n - 1)) \o sep \o Operand(a[n])

\* FuncName with a placeholder for the function that is not known.
FuncNameUnknown(p) == IF p = 0 THEN "???" ELSE IF p = 1 THEN "main.main" ELSE "main.worker"

\* fn := runtime.FuncForPC(pc); fName := fn.Name(). FuncForPC gives nil for
\* a pc it does not know, and (*Func)(nil).Name() is "".
FuncName(p) == IF p = 0 THEN "" ELSE IF p = 1 THEN "main.main" ELSE "main.worker"

\* getCurrentDate() / getCurrentTime() render the clock reading.
DateStr(i) == "2025-01-0" \o Itoa(i)
TimeStr(i) == "10:00:0" \o Itoa(i)

\* Style markers and formatText / formatTextExt.
reset == "<reset>"
bold == "<bold>"
dim == "<dim>"
italic == "<italic>"
underline == "<underline>"
brightGreen == "<brightGreen>"
brightBlue == "<brightBlue>"
brightYellow == "<brightYellow>"
orange == "<orange>"
magenta == "<magenta>"
formatText(style, text) == style \o text \o reset
formatTextExt(s1, s2, text) == s1 \o s2 \o text \o reset

HasCaller(m) == m \in {"Error", "InfoC", "WarnC", "Debug"}
IsContext(m) == m \in {"InfoC", "WarnC", "Debug"}

LevelTag(m) ==
  CASE m = "Error" -> " ERROR"
    [] m \in {"Info", "InfoC"} -> formatTextExt(bold, brightGreen, " INFO ")
    [] m \in {"Warn", "WarnC"} -> formatTextExt(bold, orange, " WARN ")
    [] m = "Debug" -> formatTextExt(bold, magenta, " DBUG ")

\* contentRaw of Error: fmt.Sprintf(`[%s] %s %s (%s:%s)`, " ERROR", date,
\* currentTime, fName, strconv.Itoa(line)).
ErrorContent(d, tm, fName, line) ==
  "[" \o " ERROR" \o "] " \o d \o " " \o tm \o " (" \o fName \o ":" \o Itoa(line) \o ")"

\* content of Info and Warn: fmt.Sprintf(`[%s] %s %s %s`, ...).
PlainContent(m, d, tm, msg) ==
  "[" \o LevelTag(m) \o "] " \o formatTextExt(dim, italic, d) \o " "
      \o formatText(underline, tm) \o " " \o formatText(bold, msg)

\* content of InfoC, WarnC and Debug: fmt.Sprintf(`[%s] %s %s (%s:%s)`, ...).
ContextContent(m, d, tm, fName, line) ==
  "[" \o LevelTag(m) \o "] " \o formatTextExt(dim, italic, d) \o " "
      \o formatText(underline, tm)
      \o " (" \o formatText(brightBlue, fName) \o ":" \o formatText(bold, Itoa(line)) \o ")"

\* The arrow of the detail line, U+21B3, written by its code point to keep
\* the strings ASCII.
arrow == "U+21B3"

\* fmt.Println(arrow, formatTextExt(bold, brightYellow, msg)): Println puts
\* a space between its operands.
DetailLine(msg) == arrow \o " " \o formatTextExt(bold, brightYellow, msg)

\* ------------------------------------------------------------- state
VARIABLES
  c,          \* Logger.c, per Logger
  cache,      \* Logger.cache, per Logger: a map from instant to content
  cMu,        \* Logger.cMu, per Logger: 0 when free, else the goroutine holding it
  now,        \* the wall clock
  pc,         \* where each goroutine is in its call
  self,       \* the Logger the call is on
  method, args,
  frame,      \* pc, line, ok of runtime.Caller(1)
  date, time, \* clock readings behind getCurrentDate() and getCurrentTime()
  msg, content,
  t,          \* time.Now() as passed to addCache
  out,        \* the lines the call printed with fmt.Println
  forwarded,  \* the messages the call passed to the package-level Error
  stored,     \* the <<key, value>> pairs the call put into the cache
  lastLock    \* per Logger and key: the content of the last addCache to lock

shared == <<c, cache, cMu, now, lastLock>>
vars == <<c, cache, cMu, now, lastLock, pc, self, method, args, frame, date, time,
          msg, content, t, out, forwarded, stored>>

Loggers == DOMAIN c
EmptyMap == [k \in {} |-> ""]

\* New(c): &Logger{cache: make(map[time.Time]string), c: c}.
New(cfg) == [cache |-> EmptyMap, cMu |-> 0, c |-> cfg]

\* No goroutine is in a call.
InitLocals ==
  /\ pc = [g \in Goroutines |-> "idle"]
  /\ self = [g \in Goroutines |-> 0]
  /\ method = [g \in Goroutines |-> ""]
  /\ args = [g \in Goroutines |-> <<>>]
  /\ frame = [g \in Goroutines |-> Unresolved]
  /\ date = [g \in Goroutines |-> 0]
  /\ time = [g \in Goroutines |-> 0]
  /\ msg = [g \in Goroutines |-> ""]
  /\ content = [g \in Goroutines |-> ""]
  /\ t = [g \in Goroutines |-> 0]
  /\ out = [g \in Goroutines |-> <<>>]
  /\ forwarded = [g \in Goroutines |-> <<>>]
  /\ stored = [g \in Goroutines |-> <<>>]

\* The program made Logger l with New(cfgs[l]), for every l.
InitLoggers(cfgs) ==
  /\ c = [l \in DOMAIN cfgs |-> New(cfgs[l]).c]
  /\ cache = [l \in DOMAIN cfgs |-> New(cfgs[l]).cache]
  /\ cMu = [l \in DOMAIN cfgs |-> New(cfgs[l]).cMu]
  /\ lastLock = [l \in DOMAIN cfgs |-> EmptyMap]
  /\ now = 1

\* One Logger, any Config.
Init == InitLocals /\ \E cfgs \in [{1} -> ConfigPtr] : InitLoggers(cfgs)

\* Two Loggers whose Configs differ: nil and a Config, or the two values of
\* IsDebugMode.
ConfigPairs ==
  { <<(<<>>), <<[IsDebugMode |-> FALSE]>> >>,
    <<(<<>>), <<[IsDebugMode |-> TRUE]>> >>,
    << <<[IsDebugMode |-> FALSE]>>, <<[IsDebugMode |-> TRUE]>> >> }
InitPair == InitLocals /\ \E cfgs \in ConfigPairs : InitLoggers(cfgs)

\* ------------------------------------------------------------- actions
\* The clock advances.
Tick ==
  /\ now < MaxTime
  /\ now' = now + 1
  /\ UNCHANGED <<c, cache, cMu, lastLock, pc, self, method, args, frame, date, time,
                 msg, content, t, out, forwarded, stored>>

\* Goroutine g calls l.m(a...) with a from A.
Call(g, A) ==
  /\ pc[g] = "idle"
  /\ \E l \in Loggers, m \in Methods, a \in A :
       /\ self' = [self EXCEPT ![g] = l]
       /\ method' = [method EXCEPT ![g] = m]
       /\ args' = [args EXCEPT ![g] = a]
  /\ pc' = [pc EXCEPT ![g] = "format"]
  /\ UNCHANGED shared
  /\ UNCHANGED <<frame, date, time, msg, content, t, out, forwarded, stored>>

\* The content string of the call: the Sprintf of the method.
Content(m, d, tm, fr, text) ==
  CASE m = "Error" -> ErrorContent(DateStr(d), TimeStr(tm), FuncName(fr.pc), fr.line)
    [] m \in {"Info", "Warn"} -> PlainContent(m, DateStr(d), TimeStr(tm), text)
    [] OTHER -> ContextContent(m, DateStr(d), TimeStr(tm), FuncName(fr.pc), fr.line)

\* AfterFormat with Warn sent down Error's path as well.
AfterFormatWarnCached(m) == IF m \in {"Error", "Warn"} THEN "lock" ELSE "print"

\* Where a method goes with its content: Error to addCache, the others to
\* fmt.Println.
AfterFormat(m) == IF m = "Error" THEN "lock" ELSE "print"

\* The body of a method up to its content: runtime.Caller(1) (where the
\* method asks for it; F is the set of its outcomes), getCurrentDate(),
\* getCurrentTime(), fmt.Sprint(args...), fmt.Sprintf(...), and for Error
\* the time.Now() it passes to addCache.
Format(g, F) ==
  /\ pc[g] = "format"
  /\ \E fr \in IF HasCaller(method[g]) THEN F ELSE {Unresolved} :
          /\ frame' = [frame EXCEPT ![g] = fr]
          /\ content' = [content EXCEPT ![g] =
                           Content(method[g], now, now, fr, Sprint(args[g]))]
  /\ date' = [date EXCEPT ![g] = now]
  /\ time' = [time EXCEPT ![g] = now]
  /\ msg' = [msg EXCEPT ![g] = Sprint(args[g])]
  /\ t' = [t EXCEPT ![g] = IF AfterFormat(method[g]) = "lock" THEN now ELSE 0]
  /\ pc' = [pc EXCEPT ![g] = AfterFormat(method[g])]
  /\ UNCHANGED shared
  /\ UNCHANGED <<self, method, args, out, forwarded, stored>>

\* addCache_Lock without the lock: the goroutine goes on at once.
addCache_NoLock(g) ==
  /\ pc[g] = "lock"
  /\ lastLock' = [lastLock EXCEPT ![self[g]] =
                    [k \in DOMAIN @ \cup {t[g]} |-> IF k = t[g] THEN content[g] ELSE @[k]]]
  /\ pc' = [pc EXCEPT ![g] = "insert"]
  /\ UNCHANGED <<c, cache, cMu, now>>
  /\ UNCHANGED <<self, method, args, frame, date, time, msg, content, t, out,
                 forwarded, stored>>

\* l.cMu.Lock(): blocks while the mutex is held.
addCache_Lock(g) ==
  /\ pc[g] = "lock"
  /\ cMu[self[g]] = 0
  /\ cMu' = [cMu EXCEPT ![self[g]] = g]
  /\ lastLock' = [lastLock EXCEPT ![self[g]] =
                    [k \in DOMAIN @ \cup {t[g]} |-> IF k = t[g] THEN content[g] ELSE @[k]]]
  /\ pc' = [pc EXCEPT ![g] = "insert"]
  /\ UNCHANGED <<c, cache, now>>
  /\ UNCHANGED <<self, method, args, frame, date, time, msg, content, t, out,
                 forwarded, stored>>

\* MapStore that starts from a fresh map.
MapStoreFresh(m, k, v) == [x \in {k} |-> v]

\* m[k] = v on a Go map.
MapStore(m, k, v) == [x \in DOMAIN m \cup {k} |-> IF x = k THEN v ELSE m[x]]

\* addCache_Insert that keeps the entry a key already has.
addCache_InsertIfAbsent(g) ==
  /\ pc[g] = "insert"
  /\ cache' = [cache EXCEPT ![self[g]] =
                 IF t[g] \in DOMAIN @ THEN @ ELSE [x \in DOMAIN @ \cup {t[g]} |->
                                                     IF x = t[g] THEN content[g] ELSE @[x]]]
  /\ stored' = [stored EXCEPT ![g] = Append(@, <<t[g], content[g]>>)]
  /\ pc' = [pc EXCEPT ![g] = "unlock"]
  /\ UNCHANGED <<c, cMu, now, lastLock>>
  /\ UNCHANGED <<self, method, args, frame, date, time, msg, content, t, out, forwarded>>

\* l.cache[t] = content
addCache_Insert(g) ==
  /\ pc[g] = "insert"
  /\ cache' = [cache EXCEPT ![self[g]] = MapStore(@, t[g], content[g])]
  /\ stored' = [stored EXCEPT ![g] = Append(@, <<t[g], content[g]>>)]
  /\ pc' = [pc EXCEPT ![g] = "unlock"]
  /\ UNCHANGED <<c, cMu, now, lastLock>>
  /\ UNCHANGED <<self, method, args, frame, date, time, msg, content, t, out, forwarded>>

\* addCache_Unlock with the deferred Unlock left out.
addCache_UnlockMissing(g) ==
  /\ pc[g] = "unlock"
  /\ pc' = [pc EXCEPT ![g] = "forward"]
  /\ UNCHANGED <<c, cache, cMu, now, lastLock>>
  /\ UNCHANGED <<self, method, args, frame, date, time, msg, content, t, out,
                 forwarded, stored>>

\* defer l.cMu.Unlock(), run when addCache returns.
addCache_Unlock(g) ==
  /\ pc[g] = "unlock"
  /\ cMu' = [cMu EXCEPT ![self[g]] = 0]
  /\ pc' = [pc EXCEPT ![g] = "forward"]
  /\ UNCHANGED <<c, cache, now, lastLock>>
  /\ UNCHANGED <<self, method, args, frame, date, time, msg, content, t, out,
                 forwarded, stored>>

\* Forward handing over the formatted content instead of the message.
ForwardContent(g) ==
  /\ pc[g] = "forward"
  /\ forwarded' = [forwarded EXCEPT ![g] = Append(@, content[g])]
  /\ pc' = [pc EXCEPT ![g] = "done"]
  /\ UNCHANGED shared
  /\ UNCHANGED <<self, method, args, frame, date, time, msg, content, t, out, stored>>

\* Error(msg): the package-level printer is handed the message.
Forward(g) ==
  /\ pc[g] = "forward"
  /\ forwarded' = [forwarded EXCEPT ![g] = Append(@, msg[g])]
  /\ pc' = [pc EXCEPT ![g] = "done"]
  /\ UNCHANGED shared
  /\ UNCHANGED <<self, method, args, frame, date, time, msg, content, t, out, stored>>

\* HasDetail that tests the message instead of the argument count.
HasDetailByMsg(m, a) == IsContext(m) /\ Sprint(a) # ""

\* if len(args) > 0 { ... } of InfoC, WarnC and Debug.
HasDetail(m, a) == IsContext(m) /\ Len(a) > 0

\* PrintHeader with Debug silenced unless the Config is in debug mode.
PrintHeaderGated(g) ==
  /\ pc[g] = "print"
  /\ LET quiet == method[g] = "Debug" /\ c[self[g]] # <<[IsDebugMode |-> TRUE]>>
     IN /\ out' = [out EXCEPT ![g] = IF quiet THEN @ ELSE Append(@, content[g])]
        /\ pc' = [pc EXCEPT ![g] =
                    IF ~quiet /\ IsContext(method[g]) /\ Len(args[g]) > 0
                    THEN "detail" ELSE "done"]
  /\ UNCHANGED shared
  /\ UNCHANGED <<self, method, args, frame, date, time, msg, content, t, forwarded,
                 stored>>

\* fmt.Println(content)
PrintHeader(g) ==
  /\ pc[g] = "print"
  /\ out' = [out EXCEPT ![g] = Append(@, content[g])]
  /\ pc' = [pc EXCEPT ![g] = IF HasDetail(method[g], args[g]) THEN "detail" ELSE "done"]
  /\ UNCHANGED shared
  /\ UNCHANGED <<self, method, args, frame, date, time, msg, content, t, forwarded,
                 stored>>

\* fmt.Println(arrow, formatTextExt(bold, brightYellow, msg))
PrintDetail(g) ==
  /\ pc[g] = "detail"
  /\ out' = [out EXCEPT ![g] = Append(@, DetailLine(msg[g]))]
  /\ pc' = [pc EXCEPT ![g] = "done"]
  /\ UNCHANGED shared
  /\ UNCHANGED <<self, method, args, frame, date, time, msg, content, t, forwarded,
                 stored>>

\* The method returns; its locals go away.
Return(g) ==
  /\ pc[g] = "done"
  /\ pc' = [pc EXCEPT ![g] = "idle"]
  /\ self' = [self EXCEPT ![g] = 0]
  /\ method' = [method EXCEPT ![g] = ""]
  /\ args' = [args EXCEPT ![g] = <<>>]
  /\ frame' = [frame EXCEPT ![g] = Unresolved]
  /\ date' = [date EXCEPT ![g] = 0]
  /\ time' = [time EXCEPT ![g] = 0]
  /\ msg' = [msg EXCEPT ![g] = ""]
  /\ content' = [content EXCEPT ![g] = ""]
  /\ t' = [t EXCEPT ![g] = 0]
  /\ out' = [out EXCEPT ![g] = <<>>]
  /\ forwarded' = [forwarded EXCEPT ![g] = <<>>]
  /\ stored' = [stored EXCEPT ![g] = <<>>]
  /\ UNCHANGED shared

\* What a goroutine does once it is in a call.
Run(g, F) ==
  \/ Format(g, F)
  \/ addCache_Insert(g)
  \/ addCache_Unlock(g)
  \/ Forward(g)
  \/ PrintHeader(g)
  \/ PrintDetail(g)
  \/ Return(g)

Step(g, A, F) == Call(g, A) \/ addCache_Lock(g) \/ Run(g, F)

\* Concurrent calls on one Logger.
Next == Tick \/ \E g \in Goroutines : Step(g, FewArgLists, FewCallerResults)
Spec == Init /\ [][Next]_vars

\* One goroutine, every argument list.
NextSeq == Tick \/ Step(1, ArgLists, CallerResults)
SpecSeq == Init /\ [][NextSeq]_vars

\* Two Loggers that differ in their Config, called concurrently by a pair of
\* goroutines.
NextPair == Tick \/ \E g \in {1, 2} : Step(g, OneArgList, OneCallSite)
SpecPair == InitPair /\ [][NextPair]_vars

\* Scheduling: a goroutine that can run does run, and sync.Mutex hands the
\* lock to a goroutine that keeps waiting for it (starvation mode), so a
\* Lock that is enabled again and again is taken.
NextFair == Tick \/ \E g \in Goroutines : Step(g, OneArgList, OneCallSite)
Fairness == \A g \in Goroutines : WF_vars(Run(g, OneCallSite)) /\ SF_vars(addCache_Lock(g))
FairSpec == Init /\ [][NextFair]_vars /\ Fairness

\* ------------------------------------------------------------- claims
HasPrefix(str, p) == Len(str) >= Len(p) /\ SubSeq(str, 1, Len(p)) = p
Contains(str, sub) ==
  \E i \in 1..(Len(str) - Len(sub) + 1) : SubSeq(str, i, i + Len(sub) - 1) = sub
InAddCache(g) == pc[g] \in {"lock", "insert", "unlock"}
NonError == Methods \ {"Error"}

\* C1: once every addCache call has returned, the cache holds exactly the
\* timestamps that were passed, each with the content of the last addCache
\* on that key to acquire the mutex; nothing is missing.
C1_LastWriterWins ==
  (\A g \in Goroutines : ~InAddCache(g)) => \A l \in Loggers : cache[l] = lastLock[l]

\* Two Error calls collided on one timestamp with different contents, and
\* both addCache calls have returned.
C1_Witness ==
  \E g, h \in Goroutines :
    /\ g # h /\ pc[g] = "forward" /\ pc[h] = "forward"
    /\ self[g] = self[h] /\ t[g] = t[h] /\ content[g] # content[h]

C6_LockScope ==
  /\ [](\A g \in Goroutines :
          pc[g] \in {"format", "print", "detail", "forward"}
            => \A l \in Loggers : cMu[l] # g)
  /\ [][\A l \in Loggers :
          cache'[l] # cache[l]
            => /\ cMu[l] # 0
               /\ pc[cMu[l]] = "insert" /\ self[cMu[l]] = l
               /\ pc'[cMu[l]] = "unlock"]_vars

\* One goroutine holds the mutex with its insert made while another is
\* formatting or printing.
C6_Witness ==
  \E g, h \in Goroutines :
    /\ pc[g] = "unlock" /\ cMu[self[g]] = g
    /\ pc[h] \in {"format", "print", "detail", "forward"}

\* The strings Logger.Error makes.
ErrorStrings ==
  { ErrorContent(DateStr(d), TimeStr(tm), FuncName(fr.pc), fr.line) :
      d \in Instants, tm \in Instants, fr \in CallerResults }

C10_NoBlocking ==
  /\ [](\A l \in Loggers :
          (\A g \in Goroutines : ~(self[g] = l /\ pc[g] \in {"insert", "unlock"}))
            => cMu[l] = 0)
  /\ [](\A g \in Goroutines :
          /\ pc[g] \notin {"idle", "lock"} => ENABLED Run(g, OneCallSite)
          /\ pc[g] = "lock" =>
               \/ ENABLED addCache_Lock(g)
               \/ /\ cMu[self[g]] \in Goroutines \ {g}
                  /\ ENABLED Run(cMu[self[g]], OneCallSite))
  /\ \A g \in Goroutines : (pc[g] # "idle") ~> (pc[g] = "idle")

\* An Error call waits for the mutex that another goroutine holds.
C10_Witness ==
  \E g, h \in Goroutines :
    /\ g # h /\ pc[g] = "lock" /\ method[g] = "Error"
    /\ cMu[self[g]] = h /\ pc[h] \in {"insert", "unlock"}

\* The content Logger.Error caches for date d, time tm, function fName and
\* the digits of the line: "[ ERROR] date time (funcName:line)".
ErrorLayout(d, tm, fName, digits) ==
  "[ ERROR] " \o d \o " " \o tm \o " (" \o fName \o ":" \o digits \o ")"

\* C3: an Error call that is about to return has put exactly one entry into
\* the cache, under time.Now(), whose content carries the tag " ERROR", the
\* date, the time and (funcName:line), and has handed the package-level
\* Error exactly one message, the Sprint of its arguments; handing it over
\* changes neither the cache nor what the call stored.
C3_ErrorCachesAndForwards ==
  /\ [](\A g \in Goroutines :
          (pc[g] = "done" /\ method[g] = "Error") =>
            /\ Len(stored[g]) = 1
            /\ stored[g][1][1] = t[g]
            /\ Contains(stored[g][1][2], " ERROR")
            /\ stored[g][1][2] = ErrorLayout(DateStr(date[g]), TimeStr(time[g]),
                                             FuncName(frame[g].pc), Itoa(frame[g].line))
            /\ Len(forwarded[g]) = 1
            /\ forwarded[g][1] = Sprint(args[g])
            /\ args[g] = <<StrArg("disk full")>> => forwarded[g] = <<"disk full">>
            /\ args[g] = <<StrArg("build"), StrArg(" "), StrArg("ok")>>
                 => forwarded[g] = <<"build ok">>
            /\ args[g] = <<StrArg("code "), IntArg(4), IntArg(12)>>
                 => forwarded[g] = <<"code 4 12">>
            /\ out[g] = <<>>)
  /\ [][\A g \in Goroutines :
          (pc[g] = "forward" /\ pc'[g] = "done")
            => (cache' = cache /\ stored'[g] = stored[g])]_vars

\* Error("disk full") from a resolved call site is about to return.
C3_Witness ==
  \E g \in Goroutines :
    /\ pc[g] = "done" /\ method[g] = "Error" /\ frame[g].ok
    /\ args[g] = <<StrArg("disk full")>>
    /\ cache[self[g]][t[g]] = "[ ERROR] 2025-01-01 10:00:01 (main.main:41)"

\* The header line of a context variant: its content.
IsHeaderOf(line, g) ==
  /\ line = content[g]
  /\ ~HasPrefix(line, arrow)
  /\ Contains(line, CASE method[g] = "InfoC" -> " INFO "
                      [] method[g] = "WarnC" -> " WARN "
                      [] OTHER -> " DBUG ")

\* C7: a call of InfoC, WarnC or Debug that is about to return has printed
\* the header line; with no arguments nothing else, with one or more
\* arguments the arrow line with the message after it.  A call of Info or
\* Warn that is about to return has printed exactly one line.
C7_DetailLine ==
  \A g \in Goroutines :
    pc[g] = "done" =>
      /\ IsContext(method[g]) =>
           /\ Len(out[g]) >= 1 /\ IsHeaderOf(out[g][1], g)
           /\ Len(args[g]) = 0 => Len(out[g]) = 1
           /\ Len(args[g]) > 0 =>
                /\ Len(out[g]) = 2
                /\ HasPrefix(out[g][2], arrow \o " ")
                /\ Contains(out[g][2], Sprint(args[g]))
      /\ method[g] \in {"Info", "Warn"} =>
           /\ Len(out[g]) = 1
           /\ ~HasPrefix(out[g][1], arrow)

\* A context variant called with one argument, the empty string, has
\* printed both lines.
C7_Witness ==
  \E g \in Goroutines :
    /\ pc[g] = "done" /\ IsContext(method[g])
    /\ args[g] = <<StrArg("")>> /\ Len(out[g]) = 2

\* A call that asked for its caller and did not get it is about to return.
UnresolvedDone(g) == pc[g] = "done" /\ HasCaller(method[g]) /\ ~frame[g].ok

\* C9 as stated: with the caller unresolved, function name and line number
\* are both rendered as empty strings.
C9_BlankFields ==
  \A g \in Goroutines :
    UnresolvedDone(g) =>
      /\ method[g] = "Error" =>
           stored[g][1][2] = ErrorLayout(DateStr(date[g]), TimeStr(time[g]), "", "")
      /\ IsContext(method[g]) =>
           Contains(out[g][1], "(" \o formatText(brightBlue, "") \o ":"
                                   \o formatText(bold, "") \o ")")

\* C9, amended: with the caller unresolved the call still runs to its end;
\* the function name is rendered as the empty string and the line number
\* as "0"; Error still inserts its entry and forwards the message.
C9_UnresolvedCaller ==
  \A g \in Goroutines :
    /\ (pc[g] \notin {"idle", "lock"} /\ ~frame[g].ok) => ENABLED Run(g, CallerResults)
    /\ UnresolvedDone(g) =>
         /\ method[g] = "Error" =>
              /\ Len(stored[g]) = 1
              /\ stored[g][1][2] = ErrorLayout(DateStr(date[g]), TimeStr(time[g]), "", "0")
              /\ cache[self[g]][t[g]] = stored[g][1][2]
              /\ forwarded[g] = <<Sprint(args[g])>>
         /\ IsContext(method[g]) =>
              /\ Len(out[g]) >= 1
              /\ Contains(out[g][1], "(" \o formatText(brightBlue, "") \o ":"
                                         \o formatText(bold, "0") \o ")")

\* An Error call whose caller was not resolved has cached "(:0)" and is
\* about to return.
C9_Witness ==
  \E g \in Goroutines :
    /\ UnresolvedDone(g) /\ method[g] = "Error"
    /\ cache[self[g]][t[g]] = "[ ERROR] 2025-01-01 10:00:01 (:0)"

\* Two calls with the same method, arguments, caller and clock, on Loggers
\* whose Configs differ, both about to return.
SameCall(g, h) ==
  /\ pc[g] = "done" /\ pc[h] = "done"
  /\ c[self[g]] # c[self[h]]
  /\ method[g] = method[h] /\ args[g] = args[h] /\ frame[g] = frame[h]
  /\ date[g] = date[h] /\ time[g] = time[h] /\ t[g] = t[h]

====
